---- MODULE Spec2Model ----
(***************************************************************************)
(* Flow machines of dcallus/State-Machine.                                 *)
(*                                                                         *)
(* Three builders turn a list of FlowSpec records into an XState v5        *)
(* machine configuration:                                                  *)
(*   createFlowMachineWithData  (FlowRunnerWithData, strict, with data)    *)
(*   createFlowMachine          (FlowRunner, lenient, no data)             *)
(*   makeFlowMachine            (first FlowRunner, lenient, no data)       *)
(* The runner creates one actor of the machine and starts it; events are   *)
(* then sent to the actor one at a time.                                   *)
(*                                                                         *)
(* Three specifications:                                                   *)
(*   Spec        one machine: build, start, send                           *)
(*   SpecBuild   the builders alone, on names that collide after trimming  *)
(*   SpecRunner  the page: runner components mounting, re-rendering and    *)
(*               unmounting, their actors and the window handles           *)
(*                                                                         *)
(* Strings are sequences of one-character strings, so that trimming and    *)
(* the "TO_" prefix are computed and not assumed.                          *)
(*                                                                         *)
(* The builders hand their table to XState v5 (createMachine, createActor, *)
(* actor.send).  What the library does with the table is modelled by       *)
(* createMachine, startActor and the Send action:                          *)
(*   - createMachine resolves every transition target when the machine is  *)
(*     created and raises for a target that is no sibling state; a target  *)
(*     "" is the targetless transition; a falsy `initial` raises;          *)
(*   - a top-level state of type "final" completes the actor: it stops     *)
(*     and drops every later event;                                        *)
(*   - an event is first offered to the current state's `on`, then to the  *)
(*     root `on`;                                                          *)
(*   - an exception raised while a transition is computed puts the actor   *)
(*     in status "error": it stops with its snapshot unchanged.            *)
(***************************************************************************)
EXTENDS Integers, Sequences, FiniteSets, TLC

VARIABLES
    variant,     \* which builder the runner calls
    inputSpecs,  \* the `specs` prop, as written by the application
    updates,     \* keys of the UpdateMap (each bound to the updater below)
    restricted,  \* the RestrictionMap: event name -> list of state names
    result,      \* "none" before the builder ran, then "ok" or "threw"
    error,       \* which error the builder raised
    machine,     \* the configuration the builder handed to createMachine
    console,     \* what the last operation wrote to the console
    status,      \* the actor: "idle", "active", "done" or "error"
    cur,         \* snapshot.value of the actor
    data,        \* snapshot.context.data of the actor
    last,        \* the last operation and what it did
    panels,      \* the mounted runner components: props, memo, refs, cleanups
    actors,      \* every actor created by a runner, in order of creation
    window,      \* the global debug handles window.flow and window.flowData
    rebuilt      \* the rebuild the last operation did, if it did one

machineVars == <<variant, inputSpecs, updates, restricted, result, error,
                 machine, console, status, cur, data, last>>

runnerVars == <<panels, actors, window, rebuilt>>

vars == <<variant, inputSpecs, updates, restricted, result, error, machine,
          console, status, cur, data, last, panels, actors, window, rebuilt>>

-----------------------------------------------------------------------------
(* Bounds of the model *)

MaxSpecs == 2      \* specs in a list of the run-time specification
MaxBuildSpecs == 3 \* specs in a list of the builder specification
MaxUpdates == 2    \* updater applications recorded in the data
MaxActors == 3     \* actors created by the runners of one page

-----------------------------------------------------------------------------
(* Strings *)

SP == " "
EMPTY == << >>
TO == <<"T", "O", "_">>

Range(f) == {f[i] : i \in DOMAIN f}
SeqsUpTo(S, n) == UNION {[1..k -> S] : k \in 0..n}

RECURSIVE trimStart(_)
trimStart(s) == IF s # EMPTY /\ Head(s) = SP THEN trimStart(Tail(s)) ELSE s

RECURSIVE trimEnd(_)
trimEnd(s) ==
    IF s # EMPTY /\ s[Len(s)] = SP THEN trimEnd(SubSeq(s, 1, Len(s) - 1)) ELSE s

\* mutant: only leading blanks are removed
normLeadingOnly(s) == trimStart(s)

\* const norm = (s) => (s ?? "").trim()
norm(s) == trimEnd(trimStart(s))

\* `TO_${t}`
edgeEvent(t) == TO \o t

-----------------------------------------------------------------------------
(* normalizeSpecs *)

\* mutant: the specs are taken as written
normalizeSpecsSkipped(specs) == specs

\* specs.map((s) => ({ name: norm(s.name), terminal: !!s.terminal,
\*                     to: (s.to ?? []).map(norm) }))
normalizeSpecs(specs) ==
    [i \in DOMAIN specs |->
        [name |-> norm(specs[i].name),
         terminal |-> specs[i].terminal,
         to |-> [j \in DOMAIN specs[i].to |-> norm(specs[i].to[j])]]]

-----------------------------------------------------------------------------
(* Validation helpers shared by the builders *)

namesOf(specs) == [i \in DOMAIN specs |-> specs[i].name]

\* names.indexOf(n), 1-based; 0 when absent
indexOf(names, n) ==
    IF \E i \in DOMAIN names : names[i] = n
    THEN CHOOSE i \in DOMAIN names :
            names[i] = n /\ \A j \in DOMAIN names : names[j] = n => i <= j
    ELSE 0

\* names.find((n, i) => names.indexOf(n) !== i): the positions that qualify
dupPositions(names) == {i \in DOMAIN names : indexOf(names, names[i]) # i}

\* `if (dup)`: find returned a string and the string is truthy (not "")
dupTruthy(names) ==
    /\ dupPositions(names) # {}
    /\ LET i == CHOOSE k \in dupPositions(names) :
                    \A j \in dupPositions(names) : k <= j
       IN names[i] # EMPTY

dupName(names) ==
    LET i == CHOOSE k \in dupPositions(names) :
                 \A j \in dupPositions(names) : k <= j
    IN names[i]

\* new Map(specs.map((s) => [s.name, s])): its key set
byName(specs) == Range(namesOf(specs))

\* mutant: the `to` of a terminal spec is not validated
missingTargetsOfNonTerminal(specs) ==
    UNION {{<<specs[i].name, specs[i].to[j]>> :
                j \in {k \in DOMAIN specs[i].to :
                          ~specs[i].terminal /\
                          specs[i].to[k] \notin Range([m \in DOMAIN specs |-> specs[m].name])}} :
           i \in DOMAIN specs}

\* the (state, target) pairs with !byName.has(t)
missingTargets(specs) ==
    UNION {{<<specs[i].name, specs[i].to[j]>> :
                j \in {k \in DOMAIN specs[i].to :
                          specs[i].to[k] \notin byName(specs)}} :
           i \in DOMAIN specs}

-----------------------------------------------------------------------------
(* The state table *)

\* mutant: `terminal` is ignored, every state keeps its `on`
stateNodeNeverFinal(s) == [final |-> FALSE, on |-> Range(s.to)]

\* s.terminal ? { type: "final" } : { on: { TO_<t>: { target: t } ... } }
\* `on` is kept as the set of targets t; its event names are edgeEvent(t).
stateNode(s) ==
    IF s.terminal THEN [final |-> TRUE, on |-> {}]
    ELSE [final |-> FALSE, on |-> Range(s.to)]

\* Object.fromEntries(specs.map((s) => [s.name, node])): a later entry with
\* the same key replaces an earlier one.
lastIndexOf(specs, n) ==
    CHOOSE i \in DOMAIN specs :
        specs[i].name = n /\ \A j \in DOMAIN specs : specs[j].name = n => j <= i

statesOf(specs) ==
    [n \in byName(specs) |-> stateNode(specs[lastIndexOf(specs, n)])]

-----------------------------------------------------------------------------
(* Global update handlers of the data-carrying builder *)

\* (restricted?.[eventType] ?? []).map(norm), as a set (only .length and
\* .includes are used)
allowedOf(restr, eventType) ==
    IF eventType \in DOMAIN restr
    THEN {norm(restr[eventType][i]) : i \in DOMAIN restr[eventType]}
    ELSE {}

\* mutant: the RestrictionMap is not consulted
handlerOfUnrestricted(restr, eventType) == [guarded |-> FALSE, allowed |-> {}]

\* if (allowed.length) [guarded transition, warning fallback] else assign
handlerOf(restr, eventType) ==
    [guarded |-> allowedOf(restr, eventType) # {},
     allowed |-> allowedOf(restr, eventType)]

onOf(upd, restr) == [k \in upd |-> handlerOf(restr, k)]

\* The updaters of the UpdateMap are application code: pure functions of
\* (data, value, currentState).  The model's updater records its arguments,
\* so that two applications with different arguments give different data.
updater(k, d, v, s) == Append(d, [key |-> k, value |-> v, state |-> s])

-----------------------------------------------------------------------------
(* createMachine (XState v5) *)

NoMachine == [initial |-> EMPTY, states |-> << >>, on |-> << >>]
NoData == << >>

Threw(e, logs) ==
    [result |-> "threw", error |-> e, machine |-> NoMachine, logs |-> logs]

\* mutant: transition targets are not resolved when the machine is created
unresolvedTargetsNone(config) == {}

\* A transition target is resolved among the sibling states when the machine
\* is created; the target "" is the targetless transition and is not looked
\* up.  A state of type "final" has no `on`.
unresolvedTargets(config) ==
    UNION {{<<n, t>> : t \in {u \in config.states[n].on :
                                 u # EMPTY /\ u \notin DOMAIN config.states}} :
           n \in DOMAIN config.states}

\* `!config.initial` on a node with child states raises
\* "No initial state specified for compound state node".
createMachine(config, logs) ==
    IF config.initial = EMPTY THEN Threw("xstate: no initial state", logs)
    ELSE IF unresolvedTargets(config) # {}
         THEN Threw("xstate: invalid transition definition", logs)
    ELSE [result |-> "ok", error |-> "none", machine |-> config, logs |-> logs]

-----------------------------------------------------------------------------
(* Console messages *)

DupMsg(n) == [level |-> "error", what |-> "Duplicate state name", a |-> n, b |-> EMPTY]
UnknownMsg(from, t) == [level |-> "error", what |-> "Unknown target", a |-> t, b |-> from]
IgnoredMsg(ev) == [level |-> "warn", what |-> "ignored in this state", a |-> ev, b |-> EMPTY]

\* for (const t of s.to) if (!byName.has(t)) console.error(...)
unknownTargetLogs(specs) ==
    {UnknownMsg(p[1], p[2]) : p \in missingTargets(specs)}

-----------------------------------------------------------------------------
(* The builders *)

\* mutant: the length of the list is not checked
emptyCheckSkipped(specs) == FALSE

\* if (!specs.length) throw new Error("specs cannot be empty")
emptyCheck(specs) == Len(specs) = 0

createFlowMachineWithData(inSpecs, upd, restr) ==
    LET specs == normalizeSpecs(inSpecs)
        names == namesOf(specs)
    IN  IF emptyCheck(specs) THEN Threw("specs cannot be empty", {})
        ELSE IF dupTruthy(names) THEN Threw("Duplicate state name", {})
        ELSE IF missingTargets(specs) # {} THEN Threw("Undefined targets", {})
        ELSE IF Len(specs) = 0 THEN Threw("TypeError", {})   \* specs[0].name
        ELSE createMachine([initial |-> specs[1].name,
                            states |-> statesOf(specs),
                            on |-> onOf(upd, restr)], {})

createFlowMachine(specs) ==
    LET names == namesOf(specs)
        dupLog == IF dupTruthy(names) THEN {DupMsg(dupName(names))} ELSE {}
        logs == dupLog \cup unknownTargetLogs(specs)
    IN  IF emptyCheck(specs) THEN Threw("specs cannot be empty", {})
        ELSE IF Len(specs) = 0 THEN Threw("TypeError", logs)  \* specs[0].name
        ELSE createMachine([initial |-> specs[1].name,
                            states |-> statesOf(specs),
                            on |-> << >>], logs)

makeFlowMachine(specs) ==
    LET logs == unknownTargetLogs(specs)
    IN  IF emptyCheck(specs) THEN Threw("specs cannot be empty", {})
        ELSE IF Len(specs) = 0 THEN Threw("TypeError", logs)  \* specs[0].name
        ELSE createMachine([initial |-> specs[1].name,
                            states |-> statesOf(specs),
                            on |-> << >>], logs)

Variants == {"createFlowMachineWithData", "createFlowMachine", "makeFlowMachine"}

build(v, inSpecs, upd, restr) ==
    IF v = "createFlowMachineWithData"
    THEN createFlowMachineWithData(inSpecs, upd, restr)
    ELSE IF v = "createFlowMachine" THEN createFlowMachine(inSpecs)
    ELSE makeFlowMachine(inSpecs)

-----------------------------------------------------------------------------
(* The actor (createActor(machine).start(), actor.send) *)

\* the state n of the machine is of type "final"
isFinal(m, n) == n \in DOMAIN m.states /\ m.states[n].final

Outcome(st, c, d, logs, did) ==
    [status |-> st, cur |-> c, data |-> d, console |-> logs, did |-> did]

\* actor.start(): the initial snapshot; an initial state of type "final"
\* completes the actor at once.
startActor(m, initialContext) ==
    Outcome(IF isFinal(m, m.initial) THEN "done" ELSE "active",
            m.initial, initialContext, {}, "started")

\* The guarded handler of a restricted update event (lines 66-74).
\*   guard: ({ self }) => allowed.includes(String(self.getSnapshot().value))
\* XState v5 calls an inline guard with { context, event }: `self` is then
\* undefined and the guard raises.  Where the guard does get the actor, it
\* reads the current state; when it passes, the assign of line 70 runs, whose
\* `self` is not a parameter of that function but the global `self` (the
\* window), which has no getSnapshot: it raises as well.  Both outcomes of
\* the guard are kept.
guardedOutcomes(h, st, c, d, ev) ==
    {Outcome("error", c, d, {}, "threw")} \cup
    (IF c \in h.allowed THEN {}
     ELSE {Outcome(st, c, d, {IgnoredMsg(ev)}, "warned")})

\* actor.send({ type: ev, value: v })
sendOutcomes(m, st, c, d, ev, v) ==
    IF st # "active" THEN {Outcome(st, c, d, {}, "dropped")}
    ELSE IF \E t \in m.states[c].on : edgeEvent(t) = ev
    THEN LET t == CHOOSE u \in m.states[c].on : edgeEvent(u) = ev
         IN  IF t = EMPTY THEN {Outcome(st, c, d, {}, "targetless")}
             ELSE {Outcome(IF isFinal(m, t) THEN "done" ELSE "active",
                           t, d, {}, "moved")}
    ELSE IF ev \in DOMAIN m.on
    THEN IF m.on[ev].guarded THEN guardedOutcomes(m.on[ev], st, c, d, ev)
         ELSE {Outcome(st, c, updater(ev, d, v, EMPTY), {}, "applied")}
    ELSE {Outcome(st, c, d, {}, "unhandled")}

-----------------------------------------------------------------------------
(* Inputs *)

SET == <<"S">>
NameA == <<"a">>
NameB == <<"b">>
NameBsp == <<SP, "b">>
NameAsp == <<"a", SP>>
NameX == <<"x">>
NameSp == <<SP>>

Values == {1, 2}

\* `to` lists: none, one target, two different targets
ToLists(names) ==
    {<< >>} \cup {<<n>> : n \in names}
    \cup {p \in names \X names : p[1] # p[2]}

FlowSpecs(names, toLists) ==
    [name : names, to : toLists, terminal : BOOLEAN]

\* Run-time specification: two states, one of them written with a leading
\* blank; `to` lists over these names, and the list of the empty name; an
\* UpdateMap with a plain key and a key that is also an edge event;
\* a RestrictionMap with no entry, an empty list, a declared state (written
\* with a trailing blank), a second declared state, an undeclared state.
RunNames == {NameA, NameBsp}
RunUpdateKeys == {SET, edgeEvent(NameA)}
\* (of the two orders of a list of two targets one is kept: the table is keyed
\* by event name, the order of `to` does not reach it)
RunToLists == (ToLists(RunNames) \ {<<NameBsp, NameA>>}) \cup {<<EMPTY>>}
RunRestrictions ==
    {<< >>} \cup
    {[k \in {SET} |-> l] : l \in {<< >>, <<NameAsp>>, <<NameB>>, <<NameX>>}}

\* Builder specification: names that are equal after trimming, a
\* whitespace-only name, a target that is declared after trimming and a target
\* that is never declared
BuildNames == {NameA, NameAsp, NameSp}
BuildToLists == {<< >>, <<NameAsp>>, <<NameBsp>>}

Events ==
    {edgeEvent(n) : n \in RunNames \cup {norm(n) : n \in RunNames} \cup {EMPTY}}
    \cup RunUpdateKeys

-----------------------------------------------------------------------------
(* The page: runner components (panels), the actors they created, window *)

Panels == {1, 2}

\* a panel that is not mounted
NoPanel ==
    [mounted |-> FALSE, builder |-> "none", specs |-> << >>,
     showInspector |-> FALSE, machine |-> NoMachine, actorRef |-> 0,
     cleanup |-> << >>]

\* neither window.flow nor window.flowData is defined (0: no actor)
NoWindow == [flow |-> 0, flowData |-> 0]

\* the last operation was not a change of the specs of a mounted panel
NoRebuild == [panel |-> 0, before |-> {}, moved |-> FALSE]

-----------------------------------------------------------------------------
(* Operations *)

NoOp == [op |-> "none", ev |-> EMPTY, value |-> 0, from |-> EMPTY,
         data |-> NoData, was |-> "idle", did |-> "none"]

InitWith(specLists, updateSets, restrictions) ==
    /\ variant \in Variants
    /\ inputSpecs \in specLists
    /\ updates \in (IF variant = "createFlowMachineWithData"
                    THEN updateSets ELSE {{}})
    /\ restricted \in (IF variant = "createFlowMachineWithData"
                       THEN restrictions ELSE {<< >>})
    /\ result = "none"
    /\ error = "none"
    /\ machine = NoMachine
    /\ console = {}
    /\ status = "idle"
    /\ cur = EMPTY
    /\ data = NoData
    /\ last = NoOp
    /\ panels = [p \in Panels |-> NoPanel]
    /\ actors = << >>
    /\ window = NoWindow
    /\ rebuilt = NoRebuild

Init ==
    InitWith(SeqsUpTo(FlowSpecs(RunNames, RunToLists), MaxSpecs),
             SUBSET RunUpdateKeys, RunRestrictions)

InitBuild ==
    InitWith(SeqsUpTo(FlowSpecs(BuildNames, BuildToLists), MaxBuildSpecs),
             {{SET}}, {<< >>})

\* The runner calls the builder (useMemo / useEffect)
Build ==
    /\ result = "none"
    /\ LET r == build(variant, inputSpecs, updates, restricted)
       IN  /\ result' = r.result
           /\ error' = r.error
           /\ machine' = r.machine
           /\ console' = r.logs
    /\ last' = [NoOp EXCEPT !.op = "build", !.did = "built"]
    /\ UNCHANGED <<variant, inputSpecs, updates, restricted, status, cur, data>>
    /\ UNCHANGED runnerVars

\* createActor(machine).start()
Start ==
    /\ result = "ok"
    /\ status = "idle"
    /\ LET o == startActor(machine, NoData)
       IN  /\ status' = o.status
           /\ cur' = o.cur
           /\ data' = o.data
           /\ console' = o.console
           /\ last' = [NoOp EXCEPT !.op = "start", !.did = o.did]
    /\ UNCHANGED <<variant, inputSpecs, updates, restricted, result, error, machine>>
    /\ UNCHANGED runnerVars

\* actor.send({ type: ev, value: v })
Send(ev, v) ==
    /\ status # "idle"
    /\ \E o \in sendOutcomes(machine, status, cur, data, ev, v) :
        /\ Len(o.data) <= MaxUpdates
        /\ status' = o.status
        /\ cur' = o.cur
        /\ data' = o.data
        /\ console' = o.console
        /\ last' = [op |-> "send", ev |-> ev, value |-> v, from |-> cur,
                    data |-> data, was |-> status, did |-> o.did]
    /\ UNCHANGED <<variant, inputSpecs, updates, restricted, result, error, machine>>
    /\ UNCHANGED runnerVars

SendEvent == \E ev \in Events, v \in Values : Send(ev, v)

Next == Build \/ Start \/ SendEvent

Spec == Init /\ [][Next]_vars

NextBuild == Build \/ Start

SpecBuild == InitBuild /\ [][NextBuild]_vars

-----------------------------------------------------------------------------
(* The runner components                                                     *)
(*                                                                           *)
(* A panel is one mounted runner component.  React runs a component's        *)
(* effects after the render is committed: on mount; again when one of the    *)
(* effect's dependencies has a new identity, after the cleanup the previous  *)
(* run returned; and the cleanup alone on unmount.  A commit is synchronous, *)
(* so each operation below is one step.  An exception raised by a render or  *)
(* an effect unmounts the panel, and with it every panel that has no error   *)
(* boundary of its own.                                                      *)

\* the props the application passes besides `specs`
RunnerUpdates == {SET}
RunnerRestricted == << >>

\* spec lists of the page: a flow that ends in a terminal state, a flow that
\* cycles, a flow with an undeclared target, and the empty list
FlowAB ==
    <<[name |-> NameA, to |-> <<NameBsp>>, terminal |-> FALSE],
      [name |-> NameBsp, to |-> << >>, terminal |-> TRUE]>>
FlowBA ==
    <<[name |-> NameBsp, to |-> <<NameA>>, terminal |-> FALSE],
      [name |-> NameA, to |-> <<NameBsp>>, terminal |-> FALSE]>>
FlowDangling == <<[name |-> NameA, to |-> <<NameX>>, terminal |-> FALSE]>>
RunnerSpecLists == {<< >>, FlowAB, FlowBA, FlowDangling}

RunnerEvents == {edgeEvent(NameA), edgeEvent(NameB), edgeEvent(NameBsp), SET}
RunnerValues == {1}

\* what a change of props is about
Changes == {"none", "specs", "name", "showInspector"}

\* the page while one commit is computed
World == [panels |-> panels, actors |-> actors, window |-> window,
          threw |-> FALSE]

\* The render: useMemo of the machine.  FlowRunnerWithData hands the builder
\* the normalised specs; the first FlowRunner builds inside its effect.
renderMachine(b, specs) ==
    IF b = "createFlowMachineWithData"
    THEN createFlowMachineWithData(normalizeSpecs(specs), RunnerUpdates,
                                   RunnerRestricted)
    ELSE IF b = "createFlowMachine" THEN createFlowMachine(specs)
    ELSE [result |-> "ok", error |-> "none", machine |-> NoMachine, logs |-> {}]

\* the builders are functions of their arguments: one table for the page
machineTable ==
    [b \in Variants |-> [specs \in RunnerSpecLists |-> renderMachine(b, specs)]]

\* number of effects of the component
effectsOf(b) == IF b = "createFlowMachine" THEN 2 ELSE 1

\* the panel after the render; the `name` prop only labels the machine and
\* is not kept
rendered(b, specs, show, old) ==
    [mounted |-> TRUE, builder |-> b, specs |-> specs,
     showInspector |-> show, machine |-> machineTable[b][specs].machine,
     actorRef |-> old.actorRef,
     cleanup |-> IF old.mounted THEN old.cleanup
                 ELSE [i \in 1..effectsOf(b) |-> 0]]

\* createActor(machine) followed by actor.start()
spawn(w, p, m) ==
    LET o == startActor(m, NoData)
    IN  [w EXCEPT !.actors =
            Append(@, [owner |-> p, machine |-> m, status |-> o.status,
                       cur |-> o.cur, data |-> o.data, torn |-> FALSE])]

\* mutant: the cleanup does not stop the actor
stopActorSkipped(as, a) == as

\* a stopped actor: it takes no event any more, and nothing on the page
\* reads its snapshot
Stopped(p) ==
    [owner |-> p, machine |-> NoMachine, status |-> "stopped", cur |-> EMPTY,
     data |-> NoData, torn |-> TRUE]

\* actor.stop()
stopActor(as, a) == [as EXCEPT ![a] = Stopped(as[a].owner)]

\* FlowRunnerWithData: the effect
effectWithData(w, p) ==
    LET P == w.panels[p]
        id == Len(w.actors) + 1
    IN  IF Len(P.specs) = 0 THEN w
        ELSE IF P.actorRef # 0 THEN w
        ELSE [spawn(w, p, P.machine) EXCEPT
                !.panels[p].actorRef = id,
                !.panels[p].cleanup[1] = id,
                !.window = [flow |-> id, flowData |-> id]]

\* mutant: the cleanup leaves the handles in place
cleanupWithDataKeepsHandles(w, p, a) ==
    [w EXCEPT !.actors = stopActor(@, a),
              !.panels[p].actorRef = 0]

\* FlowRunnerWithData: the cleanup
cleanupWithData(w, p, a) ==
    [w EXCEPT !.actors = stopActor(@, a),
              !.panels[p].actorRef = 0,
              !.window = NoWindow]

\* FlowRunner: "Start WITHOUT inspector"
effectNoInspector(w, p) ==
    LET P == w.panels[p]
        id == Len(w.actors) + 1
    IN  IF Len(P.specs) = 0 THEN w
        ELSE IF P.actorRef # 0 THEN w
        ELSE IF P.showInspector THEN w
        ELSE [spawn(w, p, P.machine) EXCEPT
                !.panels[p].actorRef = id,
                !.panels[p].cleanup[1] = id,
                !.window.flow = id]

\* FlowRunner: "Start WITH inspector"; the iframe is rendered exactly when
\* showInspector is set, and its ref is attached before the effects run
effectInspector(w, p) ==
    LET P == w.panels[p]
        id == Len(w.actors) + 1
        iframe == P.showInspector
    IN  IF ~P.showInspector THEN w
        ELSE IF Len(P.specs) = 0 THEN w
        ELSE IF P.actorRef # 0 THEN w
        ELSE IF ~iframe THEN w
        ELSE [spawn(w, p, P.machine) EXCEPT
                !.panels[p].actorRef = id,
                !.panels[p].cleanup[2] = id,
                !.window.flow = id]

\* FlowRunner: the cleanup of either effect
cleanupFlowRunner(w, p, a) ==
    [w EXCEPT !.window.flow = IF @ = a THEN 0 ELSE @,
              !.actors = stopActor(@, a),
              !.panels[p].actorRef = 0]

\* first FlowRunner: the effect builds the machine itself
effectMakeFlow(w, p) ==
    LET P == w.panels[p]
        id == Len(w.actors) + 1
        r == makeFlowMachine(P.specs)
    IN  IF Len(P.specs) = 0 THEN w
        ELSE IF r.result = "threw" THEN [w EXCEPT !.threw = TRUE]
        ELSE [spawn(w, p, r.machine) EXCEPT
                !.panels[p].cleanup[1] = id,
                !.window.flow = id]

\* first FlowRunner: the cleanup
cleanupMakeFlow(w, p, a) ==
    [w EXCEPT !.actors = stopActor(@, a),
              !.window.flow = IF @ = a THEN 0 ELSE @]

\* the effects of the panel, in the order of the source
setup(w, p) ==
    LET b == w.panels[p].builder
    IN  IF b = "createFlowMachineWithData" THEN effectWithData(w, p)
        ELSE IF b = "createFlowMachine"
        THEN effectInspector(effectNoInspector(w, p), p)
        ELSE effectMakeFlow(w, p)

cleanupOf(w, p, a) ==
    LET b == w.panels[p].builder
    IN  IF b = "createFlowMachineWithData" THEN cleanupWithData(w, p, a)
        ELSE IF b = "createFlowMachine" THEN cleanupFlowRunner(w, p, a)
        ELSE cleanupMakeFlow(w, p, a)

\* the cleanup the i-th effect returned, if it returned one
teardownEffect(w, p, i) ==
    IF i \in DOMAIN w.panels[p].cleanup /\ w.panels[p].cleanup[i] # 0
    THEN [cleanupOf(w, p, w.panels[p].cleanup[i]) EXCEPT
            !.panels[p].cleanup[i] = 0]
    ELSE w

teardown(w, p) == teardownEffect(teardownEffect(w, p, 1), p, 2)

\* mutant: the effects depend on showInspector only
depsChangedInspectorOnly(b, change) ==
    b # "makeFlowMachine" /\ change = "showInspector"

\* the dependency lists: [specs, machine, showInspector] with machine
\* memoised on specs and name; [specs, name] in the first FlowRunner
depsChanged(b, change) ==
    IF b = "makeFlowMachine" THEN change \in {"specs", "name"}
    ELSE change \in {"specs", "name", "showInspector"}

unmountPanel(w, q) ==
    IF w.panels[q].mounted
    THEN [teardown(w, q) EXCEPT !.panels[q] = NoPanel]
    ELSE w

unmountAll(w, Q) ==
    LET w1 == IF 1 \in Q THEN unmountPanel(w, 1) ELSE w
    IN  IF 2 \in Q THEN unmountPanel(w1, 2) ELSE w1

\* the actors of panel p that its teardown has not stopped
liveActors(as, p) == {a \in DOMAIN as : as[a].owner = p /\ ~as[a].torn}

Commit(w, c) ==
    /\ Len(w.actors) <= MaxActors
    /\ panels' = w.panels
    /\ actors' = w.actors
    /\ window' = w.window
    /\ rebuilt' = c
    /\ UNCHANGED machineVars

\* the commit of panel p with its newly rendered props: cleanups of the
\* effects whose dependencies changed, then the effects
commitPanel(p, P, rerun) ==
    LET w0 == [World EXCEPT !.panels[p] = P]
    IN  IF rerun THEN setup(teardown(w0, p), p) ELSE w0

\* an exception of the render or of an effect unmounts panel p and the
\* panels of Q
crashPanel(w, p, Q) == unmountAll([w EXCEPT !.threw = FALSE], Q \cup {p})

Mount(p, b, specs, show) ==
    /\ ~panels[p].mounted
    /\ LET c == NoRebuild
           w == commitPanel(p, rendered(b, specs, show, NoPanel), TRUE)
       IN  IF machineTable[b][specs].result = "threw"
           THEN \E Q \in SUBSET Panels : Commit(crashPanel(World, p, Q), c)
           ELSE IF w.threw
           THEN \E Q \in SUBSET Panels : Commit(crashPanel(w, p, Q), c)
           ELSE Commit(w, c)

MountPanel ==
    \E p \in Panels, b \in Variants, specs \in RunnerSpecLists :
        \E show \in (IF b = "makeFlowMachine" THEN {FALSE} ELSE BOOLEAN) :
            Mount(p, b, specs, show)

\* the parent renders the panel again: with the same props, with a new
\* `specs` array, with another name, or with showInspector toggled (a prop
\* the first FlowRunner does not have)
Rerender(p, change, specs) ==
    LET old == panels[p]
        b == old.builder
        show == IF change = "showInspector" /\ b # "makeFlowMachine"
                THEN ~old.showInspector ELSE old.showInspector
        c == IF change = "specs"
             THEN [panel |-> p, before |-> liveActors(actors, p),
                   moved |-> \E a \in liveActors(actors, p) :
                                actors[a].cur # actors[a].machine.initial
                                /\ actors[a].data # NoData]
             ELSE NoRebuild
        w == commitPanel(p, rendered(b, specs, show, old),
                         depsChanged(b, change))
    IN  /\ old.mounted
        /\ IF change = "specs" /\ machineTable[b][specs].result = "threw"
           THEN \E Q \in SUBSET Panels : Commit(crashPanel(World, p, Q), c)
           ELSE IF w.threw
           THEN \E Q \in SUBSET Panels : Commit(crashPanel(w, p, Q), c)
           ELSE Commit(w, c)

RerenderPanel ==
    \E p \in Panels, change \in Changes :
        \E specs \in (IF change = "specs" THEN RunnerSpecLists
                      ELSE {panels[p].specs}) :
            Rerender(p, change, specs)

\* the parent renders both panels again in one commit, each with a new array
\* of the same specs: all cleanups run before all effects
RerenderAll ==
    /\ \A p \in Panels : panels[p].mounted
    /\ LET rerun(w, p) == depsChanged(w.panels[p].builder, "specs")
           down(w, p) == IF rerun(w, p) THEN teardown(w, p) ELSE w
           up(w, p) == IF rerun(w, p) THEN setup(w, p) ELSE w
       IN  Commit(up(up(down(down(World, 1), 2), 1), 2),
                  NoRebuild)

Unmount(p) ==
    /\ panels[p].mounted
    /\ Commit(unmountPanel(World, p), NoRebuild)

UnmountPanel == \E p \in Panels : Unmount(p)

\* the actors the page can send to: window.flow, window.flowData.send, and
\* the buttons of a panel (actorRef.current)
handles ==
    ({window.flow, window.flowData}
        \cup {panels[p].actorRef : p \in Panels}) \ {0}

SendActor(a, ev, v) ==
    /\ a \in handles
    /\ \E o \in sendOutcomes(actors[a].machine, actors[a].status,
                             actors[a].cur, actors[a].data, ev, v) :
        /\ Len(o.data) < MaxUpdates
        /\ actors' = [actors EXCEPT ![a].status = o.status,
                                    ![a].cur = o.cur,
                                    ![a].data = o.data]
        /\ rebuilt' = NoRebuild
    /\ UNCHANGED <<panels, window>>
    /\ UNCHANGED machineVars

SendToActor ==
    \E a \in 1..MaxActors, ev \in RunnerEvents, v \in RunnerValues :
        SendActor(a, ev, v)

InitRunner ==
    /\ variant = "createFlowMachineWithData"
    /\ inputSpecs = << >>
    /\ updates = {}
    /\ restricted = << >>
    /\ result = "none"
    /\ error = "none"
    /\ machine = NoMachine
    /\ console = {}
    /\ status = "idle"
    /\ cur = EMPTY
    /\ data = NoData
    /\ last = NoOp
    /\ panels = [p \in Panels |-> NoPanel]
    /\ actors = << >>
    /\ window = NoWindow
    /\ rebuilt = NoRebuild

NextRunner ==
    MountPanel \/ RerenderPanel \/ RerenderAll \/ UnmountPanel \/ SendToActor

SpecRunner == InitRunner /\ [][NextRunner]_vars

-----------------------------------------------------------------------------
(* The claims speak of the spec list as the builder reads it: trimmed by     *)
(* the data-carrying builder, as written by the two others.                  *)

WithData == variant = "createFlowMachineWithData"

declared ==
    IF WithData
    THEN [i \in DOMAIN inputSpecs |->
            [name |-> norm(inputSpecs[i].name),
             terminal |-> inputSpecs[i].terminal,
             to |-> [j \in DOMAIN inputSpecs[i].to |-> norm(inputSpecs[i].to[j])]]]
    ELSE inputSpecs

Named(n) == {i \in DOMAIN declared : declared[i].name = n}

SharedName == \E i, j \in DOMAIN declared : i # j /\ declared[i].name = declared[j].name

DanglingAt(i) == \E j \in DOMAIN declared[i].to : Named(declared[i].to[j]) = {}

\* non-empty, names unique, every `to` target declared
ValidSpecs ==
    /\ Len(declared) > 0
    /\ ~SharedName
    /\ \A i \in DOMAIN declared : ~DanglingAt(i)

\* the state named n is declared, and declared terminal / non-terminal
TerminalState(n) == Named(n) # {} /\ \A i \in Named(n) : declared[i].terminal
NonTerminalState(n) == Named(n) # {} /\ \A i \in Named(n) : ~declared[i].terminal

ListsTarget(n, t) == \A i \in Named(n) : t \in Range(declared[i].to)
ListsNoTarget(n, t) == \A i \in Named(n) : t \notin Range(declared[i].to)

TargetNames == RunNames \cup {norm(n) : n \in RunNames}

Sent == last.op = "send"

\* the last event was an update event whose updater was applied to the data
\* the actor had before it
Applied(k) ==
    \E v \in Values, s \in {EMPTY, last.from} : data = updater(k, last.data, v, s)

RestrictionEntry(k) == k \in DOMAIN restricted
AllowedSet(k) == {norm(restricted[k][i]) : i \in DOMAIN restricted[k]}

-----------------------------------------------------------------------------
(* C1 *)

\* C1: from a non-terminal current state s, the edge event TO_<t> with t
\* listed in s.to moves the current state to exactly t, and an edge event
\* TO_<u> with u not listed in s.to leaves the current state unchanged, after
\* any sequence of previously fired events.
C1_EdgeEventFollowsTable ==
    (Sent /\ NonTerminalState(last.from)) =>
        \A t \in TargetNames :
            last.ev = edgeEvent(t) =>
                /\ ListsTarget(last.from, t) => cur = t
                /\ ListsNoTarget(last.from, t) => cur = last.from

-----------------------------------------------------------------------------
(* C2 *)

\* C2: a terminal state is absorbing: once the current state is declared
\* terminal, no event (edge or update) changes the current state, also when
\* the terminal spec lists targets in its `to`.
C2_TerminalAbsorbing ==
    [][(status # "idle" /\ TerminalState(cur)) => cur' = cur]_vars

\* an edge event for a declared target listed in the `to` of the terminal
\* current state was sent, and the state is still the terminal one
C2_Witness ==
    /\ Sent
    /\ TerminalState(last.from)
    /\ cur = last.from
    /\ \E t \in TargetNames :
        /\ t # cur
        /\ Named(t) # {}
        /\ ListsTarget(cur, t)
        /\ last.ev = edgeEvent(t)

-----------------------------------------------------------------------------
(* C3 *)

\* C3: for every valid spec list (non-empty, names unique, every target
\* declared) each builder returns a machine without raising, and the initial
\* current state is the name of the first spec, also when that spec is
\* terminal.
C3_ValidSpecsBuild ==
    (result # "none" /\ ValidSpecs) =>
        /\ result = "ok"
        /\ machine.initial = declared[1].name
        /\ last.op = "start" => cur = declared[1].name

-----------------------------------------------------------------------------
(* C4 *)

\* C4: an update event that has a RestrictionMap entry replaces the data with
\* the updater's result when fired while the current state is in the allowed
\* set, and leaves the data unchanged and emits a warning when fired while the
\* current state is not in the allowed set, in every reachable state.
C4_RestrictedUpdate ==
    (Sent /\ WithData /\ last.ev \in updates /\ RestrictionEntry(last.ev)) =>
        IF last.from \in AllowedSet(last.ev)
        THEN Applied(last.ev)
        ELSE data = last.data /\ IgnoredMsg(last.ev) \in console

-----------------------------------------------------------------------------
(* C5 *)

\* C5: an update event with no RestrictionMap entry applies the updater and
\* replaces the data when fired from any reachable current state (initial,
\* intermediate or terminal).  Stated for the update events whose name is not
\* the name of an edge event.
C5_UnrestrictedUpdate ==
    (Sent /\ WithData /\ last.ev \in updates /\ ~RestrictionEntry(last.ev)
          /\ last.ev \notin {edgeEvent(t) : t \in TargetNames}) =>
        Applied(last.ev)

-----------------------------------------------------------------------------
(* C6 *)

\* C6: when the RestrictionMap has an entry for an update event, whatever its
\* list of state names (the empty list included), the updater is applied only
\* while the current state is a member of the list: in every other state the
\* event leaves the data unchanged.
C6_EntryGatesUpdate ==
    (Sent /\ WithData /\ last.ev \in updates /\ RestrictionEntry(last.ev)
          /\ last.from \notin AllowedSet(last.ev)) =>
        data = last.data

-----------------------------------------------------------------------------
(* C7 *)

\* C7: the data-carrying builder raises and returns no machine whenever two
\* entries of the spec list have the same name after trimming, whatever the
\* name (the empty and the whitespace-only name included).
C7_DuplicateNameRejected ==
    (WithData /\ result # "none" /\ SharedName) => result = "threw"

-----------------------------------------------------------------------------
(* C8 *)

\* C8: the data-carrying builder raises an error and returns no machine
\* whenever a `to` entry of a spec, terminal or not, names after trimming a
\* state that is not declared.
C8_DanglingTargetRejected ==
    (WithData /\ result # "none" /\ \E i \in DOMAIN declared : DanglingAt(i)) =>
        /\ result = "threw"
        /\ error \in {"Duplicate state name", "Undefined targets"}
        /\ machine = NoMachine

\* the undefined-targets error was raised for the `to` of a terminal spec
C8_Witness ==
    /\ WithData
    /\ result = "threw"
    /\ error = "Undefined targets"
    /\ \E i \in DOMAIN declared : declared[i].terminal /\ DanglingAt(i)
    /\ \A i \in DOMAIN declared : ~declared[i].terminal => ~DanglingAt(i)

-----------------------------------------------------------------------------
(* C9 *)

\* C9: every builder raises "specs cannot be empty" and returns no machine for
\* the empty spec list, before any other validation has run or logged.
C9_EmptySpecsRejected ==
    (result # "none" /\ Len(inputSpecs) = 0) =>
        /\ result = "threw"
        /\ error = "specs cannot be empty"
        /\ machine = NoMachine
        /\ console = {}

\* a lenient builder was called with the empty list and raised
C9_Witness ==
    /\ variant = "makeFlowMachine"
    /\ Len(inputSpecs) = 0
    /\ result = "threw"

-----------------------------------------------------------------------------
(* C10 *)

\* C10: in the no-data builders (createFlowMachine, makeFlowMachine), when two
\* specs share a name the builder logs an error for that defect.  Stated for
\* a shared name that is not the empty string.
C10_LenientBuilderLogsDuplicate ==
    (~WithData /\ result # "none" /\
        \E i, j \in DOMAIN declared :
            i # j /\ declared[i].name = declared[j].name /\ declared[i].name # EMPTY) =>
        \E m \in console : m.what = "Duplicate state name"

-----------------------------------------------------------------------------
(* C11 *)

\* C11: firing a global update event never changes the current state: for
\* every UpdateMap key, in every reachable state, whether the updater is
\* applied or the event is dropped, the current state after the event equals
\* the current state before it.
C11_UpdateKeepsState ==
    (Sent /\ WithData /\ last.ev \in updates) => cur = last.from

-----------------------------------------------------------------------------
(* C12 *)

\* C12: firing an event whose name is TO_ followed by a declared state name,
\* from any reachable state and for any UpdateMap, leaves the data unchanged,
\* whether or not the event moves the current state.
C12_EdgeEventKeepsData ==
    (Sent /\ WithData /\ \E t \in TargetNames :
                            Named(t) # {} /\ last.ev = edgeEvent(t)) =>
        data = last.data

-----------------------------------------------------------------------------
(* C13 *)

\* C13: when an updater is applied, the new data is exactly
\* updater(previous data, the event's carried value, S), where S is the name
\* of the current state at the time of the event when the event has a
\* RestrictionMap entry, and the empty string when it has none.
C13_UpdaterArguments ==
    (Sent /\ WithData /\ last.ev \in updates /\ data # last.data) =>
        data = updater(last.ev, last.data, last.value,
                       IF RestrictionEntry(last.ev) THEN last.from ELSE EMPTY)

-----------------------------------------------------------------------------
(* C14 *)

\* the actors panel p started that no teardown has stopped yet
Running(p) == {a \in DOMAIN actors : actors[a].owner = p /\ ~actors[a].torn}

\* C14: per panel, at most one started-and-not-stopped actor exists at any
\* time, across every sequence of mount, re-render, change of specs or name,
\* toggling of showInspector, and unmount; a panel that is not mounted has
\* none.
C14_OneActorPerPanel ==
    \A p \in Panels :
        /\ Cardinality(Running(p)) <= 1
        /\ ~panels[p].mounted => Running(p) = {}

\* a mounted panel runs one actor and has stopped an earlier one, while the
\* other panel runs an actor of its own
C14_Witness ==
    \E p, q \in Panels :
        /\ p # q
        /\ panels[p].mounted
        /\ Cardinality(Running(p)) = 1
        /\ \E a \in DOMAIN actors : actors[a].owner = p /\ actors[a].torn
        /\ Cardinality(Running(q)) = 1

-----------------------------------------------------------------------------
(* C15 *)

\* C15: whenever window.flow or window.flowData is present it refers to an
\* actor that has been started and not yet stopped by its panel's teardown,
\* and when no panel is mounted both are absent.
C15_HandleRefersToRunningActor ==
    /\ window.flow # 0 => ~actors[window.flow].torn
    /\ window.flowData # 0 => ~actors[window.flowData].torn
    /\ (\A p \in Panels : ~panels[p].mounted) => window = NoWindow

\* two panels were mounted, the first one has been unmounted, and the handle
\* refers to the running actor of the second
C15_Witness ==
    /\ window.flow # 0
    /\ ~actors[window.flow].torn
    /\ \E a \in DOMAIN actors :
        /\ a < window.flow
        /\ actors[a].torn
        /\ actors[a].owner # actors[window.flow].owner
        /\ ~panels[actors[a].owner].mounted

-----------------------------------------------------------------------------
(* C16 *)

\* the first name of the spec list of panel p, as its builder reads it
FirstName(p) ==
    IF panels[p].builder = "createFlowMachineWithData"
    THEN norm(panels[p].specs[1].name)
    ELSE panels[p].specs[1].name

\* the specs of panel p have just changed to a non-empty list that its
\* builder accepted, while the panel was running an actor
Rebuilt(p) ==
    /\ rebuilt.panel = p
    /\ rebuilt.before # {}
    /\ panels[p].mounted
    /\ Len(panels[p].specs) > 0

\* C16: when the specs of a mounted panel change, the actor running the old
\* machine is stopped, a new actor is started, and the new actor's current
\* state is the first name of the new spec list with the data reset to the
\* initial data, regardless of the state and data the old actor had reached.
C16_SpecsChangeRebuilds ==
    \A p \in Panels :
        Rebuilt(p) =>
            /\ \A a \in rebuilt.before : actors[a].torn
            /\ \E a \in Running(p) :
                /\ Running(p) = {a}
                /\ a \notin rebuilt.before
                /\ actors[a].status \in {"active", "done"}
                /\ actors[a].cur = FirstName(p)
                /\ actors[a].data = NoData

\* the old actor had left its initial state and changed its data
C16_Witness ==
    \E p \in Panels :
        /\ Rebuilt(p)
        /\ rebuilt.moved
        /\ \E a \in Running(p) : actors[a].cur = FirstName(p)

-----------------------------------------------------------------------------
(* C17 *)

\* the names one `to` edge of a non-terminal spec away from a name of S
OneEdgeFrom(S) ==
    UNION {Range(declared[i].to) :
              i \in {k \in DOMAIN declared :
                        declared[k].name \in S /\ ~declared[k].terminal}}

RECURSIVE ReachableFrom(_)
ReachableFrom(S) ==
    IF OneEdgeFrom(S) \subseteq S THEN S ELSE ReachableFrom(S \cup OneEdgeFrom(S))

\* C17: for every machine returned by the data-carrying builder, in every
\* state reachable by any sequence of edge and update events, the current
\* state is one of the declared (trimmed) spec names and is reachable from the
\* first spec by following `to` edges of non-terminal specs only.
C17_CurrentStateDeclaredAndReachable ==
    (WithData /\ status # "idle") =>
        /\ Named(cur) # {}
        /\ cur \in ReachableFrom({declared[1].name})

\* after an update was applied, an edge event has moved the machine away from
\* the first spec, whose written name differs from the declared one
C17_Witness ==
    /\ WithData
    /\ Sent
    /\ last.did = "moved"
    /\ data # NoData
    /\ cur # declared[1].name
    /\ \E i \in DOMAIN inputSpecs : inputSpecs[i].name # declared[i].name

-----------------------------------------------------------------------------
(* C18 *)

-----------------------------------------------------------------------------
(* C19 *)

\* the restriction of update event k lists names, none of them declared
RestrictedToUndeclared(k) ==
    /\ k \in updates
    /\ RestrictionEntry(k)
    /\ AllowedSet(k) # {}
    /\ \A n \in AllowedSet(k) : Named(n) = {}

\* C19: RestrictionMap state names are not validated against the declared
\* specs (the builder returns a machine all the same), and an update event
\* whose restriction lists only names that are not declared states is applied
\* in no reachable state: the data never holds a result of its updater.
C19_UndeclaredRestrictionNeverApplies ==
    \A k \in RunUpdateKeys :
        (WithData /\ RestrictedToUndeclared(k)) =>
            /\ (result # "none" /\ ValidSpecs) => result = "ok"
            /\ \A i \in DOMAIN data : data[i].key # k
            /\ (Sent /\ last.ev = k) => data = last.data

\* such an event was sent to the running actor and the data is as before
C19_Witness ==
    \E k \in RunUpdateKeys :
        /\ WithData
        /\ RestrictedToUndeclared(k)
        /\ Sent
        /\ last.ev = k
        /\ last.was = "active"
        /\ data = last.data

-----------------------------------------------------------------------------
(* C20 *)

\* s without its leading and trailing blanks
Trimmed(s) ==
    LET nonBlank == {i \in DOMAIN s : s[i] # SP}
    IN  IF nonBlank = {} THEN EMPTY
        ELSE SubSeq(s, CHOOSE i \in nonBlank : \A j \in nonBlank : i <= j,
                       CHOOSE i \in nonBlank : \A j \in nonBlank : j <= i)

TrimmedSpecs ==
    [i \in DOMAIN inputSpecs |->
        [name |-> Trimmed(inputSpecs[i].name),
         terminal |-> inputSpecs[i].terminal,
         to |-> [j \in DOMAIN inputSpecs[i].to |-> Trimmed(inputSpecs[i].to[j])]]]

TrimmedRestricted ==
    [k \in DOMAIN restricted |->
        [i \in DOMAIN restricted[k] |-> Trimmed(restricted[k][i])]]

\* C20: normalizeSpecs(normalizeSpecs(x)) = normalizeSpecs(x), and the
\* data-carrying builder gives for specs and restriction lists written with
\* leading or trailing blanks the same outcome as for the trimmed ones: the
\* same states, edge events, initial state and update handlers, or the same
\* error.
C20_NormalizationIdempotentAndBuilderTrims ==
    (WithData /\ last.op = "build") =>
        /\ normalizeSpecs(normalizeSpecs(inputSpecs)) = normalizeSpecs(inputSpecs)
        /\ normalizeSpecs(inputSpecs) = TrimmedSpecs
        /\ LET r == createFlowMachineWithData(TrimmedSpecs, updates,
                                             TrimmedRestricted)
           IN  /\ result = r.result
               /\ error = r.error
               /\ machine = r.machine

\* a machine was built from specs whose first name and a `to` entry carry a
\* blank, with a restriction list whose entry carries a blank
C20_Witness ==
    /\ WithData
    /\ last.op = "build"
    /\ result = "ok"
    /\ inputSpecs[1].name # Trimmed(inputSpecs[1].name)
    /\ \E i \in DOMAIN inputSpecs : \E j \in DOMAIN inputSpecs[i].to :
            inputSpecs[i].to[j] # Trimmed(inputSpecs[i].to[j])
    /\ \E k \in updates :
        /\ RestrictionEntry(k)
        /\ \E i \in DOMAIN restricted[k] :
            restricted[k][i] # Trimmed(restricted[k][i])

-----------------------------------------------------------------------------
(* Supporting facts: what does hold where C1, C3, C5, C11, C12 and C13 fail *)

\* While the actor is running, edge events follow the table.
EdgeEventFollowsTableWhileActive ==
    (Sent /\ last.was = "active" /\ NonTerminalState(last.from)) =>
        \A t \in TargetNames :
            last.ev = edgeEvent(t) =>
                /\ ListsTarget(last.from, t) => cur = t
                /\ ListsNoTarget(last.from, t) => cur = last.from

\* A valid spec list whose first name is not empty builds, and starts in the
\* first spec's name.
ValidSpecsWithNamedFirstBuild ==
    (result # "none" /\ ValidSpecs /\ declared[1].name # EMPTY) =>
        /\ result = "ok"
        /\ machine.initial = declared[1].name
        /\ last.op = "start" => cur = declared[1].name

\* While the actor is running, an unrestricted update event whose name is no
\* edge event applies its updater.
UnrestrictedUpdateWhileActive ==
    (Sent /\ WithData /\ last.was = "active" /\ last.ev \in updates
          /\ ~RestrictionEntry(last.ev)
          /\ last.ev \notin {edgeEvent(t) : t \in TargetNames}) =>
        Applied(last.ev)

\* An update event that is no edge event of any state keeps the current
\* state.
PlainUpdateKeepsState ==
    (Sent /\ WithData /\ last.ev \in updates
          /\ last.ev \notin {edgeEvent(t) : t \in TargetNames \cup {EMPTY}}) =>
        cur = last.from

\* With an UpdateMap that has no edge event among its keys, edge events keep
\* the data.
EdgeEventKeepsDataWithPlainKeys ==
    (Sent /\ WithData
          /\ updates \cap {edgeEvent(t) : t \in TargetNames \cup {EMPTY}} = {}
          /\ \E t \in TargetNames : last.ev = edgeEvent(t)) =>
        data = last.data

\* An applied updater gets the previous data, the carried value and the empty
\* string.
UpdaterGetsEmptyStateName ==
    (Sent /\ WithData /\ last.ev \in updates /\ data # last.data) =>
        data = updater(last.ev, last.data, last.value, EMPTY)

====
